---- MODULE Spec2Model ----
(***************************************************************************)
(* Model of src/expense_report.py: the ExpenseTracker store (expenses,     *)
(* budget), its CSV persistence and the interactive menu loop.             *)
(*                                                                         *)
(* One action is one iteration of ExpenseTracker.menu: the selection that  *)
(* is read and the whole operation that is dispatched for it.              *)
(*                                                                         *)
(* Representation                                                          *)
(*   - a Python value held in an expense dict is a record [k, s, n, l]:    *)
(*     k is the kind (str, num, none, list), s the text of a str, n the    *)
(*     number of a float, l the cells of a list;                           *)
(*   - a float is modelled by an integer: the inputs of the model are      *)
(*     decimal literals of integral values, on which float arithmetic is   *)
(*     exact; str(float) of such a value is the digits followed by ".0";   *)
(*   - an expense dict is a function from its keys to values;              *)
(*   - a CSV file is the sequence of its rows, a row the sequence of its   *)
(*     cell texts (the quoting done by the csv module is lossless and is   *)
(*     not modelled);                                                      *)
(*   - out holds the lines printed by the operation of the last menu       *)
(*     iteration (the menu banner itself is left out).                     *)
(***************************************************************************)
EXTENDS Integers, Sequences, FiniteSets, TLC

VARIABLES expenses, budget, fs, pc, out, op

vars == <<expenses, budget, fs, pc, out, op>>

(***************************************************************************)
(* Bounds and input sets                                                   *)
(***************************************************************************)
\* add is offered while the store holds fewer records, load while it holds
\* no more.
MaxExpenses == 2

\* the literals float() is tried on range over the integral values -MaxAbs..MaxAbs
MaxAbs == 99

DefaultPath == "expenses.csv"

\* a path a caller of save_expenses or load_expenses could name instead
OtherPath == "backup.csv"

Paths == {DefaultPath, OtherPath}

FieldNames == <<"date", "category", "amount", "description">>

FieldSet == {FieldNames[i] : i \in 1..Len(FieldNames)}

\* the key None under which csv.DictReader stores the surplus cells of a row
NoneKey == "<None>"

(***************************************************************************)
(* Python values                                                           *)
(***************************************************************************)
Str(s) == [k |-> "str", s |-> s, n |-> 0, l |-> <<>>]

Num(n) == [k |-> "num", s |-> "", n |-> n, l |-> <<>>]

NoneVal == [k |-> "none", s |-> "", n |-> 0, l |-> <<>>]

ListVal(l) == [k |-> "list", s |-> "", n |-> 0, l |-> l]

\* bool(v): "", 0.0, None and [] are false
Truthy(v) ==
    CASE v.k = "str" -> v.s # ""
      [] v.k = "num" -> v.n # 0
      [] v.k = "none" -> FALSE
      [] OTHER -> v.l # <<>>

(***************************************************************************)
(* float(text), str(float), format(float, ".2f")                           *)
(***************************************************************************)
FormatFloat(n) == ToString(n) \o ".0"

Fmt2(n) == ToString(n) \o ".00"

\* the texts float() accepts, with their values: "10" and "10.0" are both 10.0
FloatLiterals ==
    {<<ToString(n), n>> : n \in (0 - MaxAbs)..MaxAbs}
        \cup {<<FormatFloat(n), n>> : n \in (0 - MaxAbs)..MaxAbs}

FloatParses(t) == \E p \in FloatLiterals : p[1] = t

ParseFloat(t) == (CHOOSE p \in FloatLiterals : p[1] = t)[2]

(***************************************************************************)
(* datetime.strptime(date, '%Y-%m-%d')                                     *)
(***************************************************************************)
\* The match of the format's regular expression on the texts of the model:
\* the year, month and day it captures, or no match at all.
DateMatch(t) ==
    CASE t = "2024-01-15" -> [ok |-> TRUE, y |-> 2024, m |-> 1, d |-> 15]
      [] t = "2024-02-29" -> [ok |-> TRUE, y |-> 2024, m |-> 2, d |-> 29]
      [] t = "2023-02-29" -> [ok |-> TRUE, y |-> 2023, m |-> 2, d |-> 29]
      [] t = "2024-02-30" -> [ok |-> TRUE, y |-> 2024, m |-> 2, d |-> 30]
      [] OTHER -> [ok |-> FALSE, y |-> 0, m |-> 0, d |-> 0]

IsLeap(y) == (y % 4 = 0 /\ y % 100 # 0) \/ y % 400 = 0

DaysInMonth(y, m) ==
    IF m = 2 THEN (IF IsLeap(y) THEN 29 ELSE 28)
    ELSE IF m \in {4, 6, 9, 11} THEN 30 ELSE 31

\* strptime raises ValueError unless the text matches and names a real day
DateValid(t) ==
    LET p == DateMatch(t)
    IN  /\ p.ok
        /\ p.m \in 1..12
        /\ p.d \in 1..DaysInMonth(p.y, p.m)

(***************************************************************************)
(* ExpenseTracker.add_expense                                              *)
(***************************************************************************)
MsgAdded == "Expense added successfully!"

MsgInvalidInput == "Invalid input! Please try again."

Expense(date, category, amount, description) ==
    ("date" :> Str(date)) @@ ("category" :> Str(category))
        @@ ("amount" :> Num(amount)) @@ ("description" :> Str(description))

\* add_expense inserting the new dict at the head of the list
add_expense_Prepend(exps, date, category, amount, description) ==
    IF ~DateValid(date)
    THEN [expenses |-> exps, out |-> <<MsgInvalidInput>>, result |-> "invalid",
          read |-> <<date>>]
    ELSE IF ~FloatParses(amount)
    THEN [expenses |-> exps, out |-> <<MsgInvalidInput>>, result |-> "invalid",
          read |-> <<date, category, amount>>]
    ELSE [expenses |->
              <<Expense(date, category, ParseFloat(amount), description)>>
                  \o exps,
          out |-> <<MsgAdded>>, result |-> "ok",
          read |-> <<date, category, amount, description>>]

\* add_expense with the dict appended before the amount is converted
add_expense_AppendBeforeParse(exps, date, category, amount, description) ==
    IF ~DateValid(date)
    THEN [expenses |-> exps, out |-> <<MsgInvalidInput>>, result |-> "invalid",
          read |-> <<date>>]
    ELSE IF ~FloatParses(amount)
    THEN [expenses |-> Append(exps, Expense(date, category, 0, "")),
          out |-> <<MsgInvalidInput>>, result |-> "invalid",
          read |-> <<date, category, amount>>]
    ELSE [expenses |->
              Append(exps, Expense(date, category, ParseFloat(amount), description)),
          out |-> <<MsgAdded>>, result |-> "ok",
          read |-> <<date, category, amount, description>>]

\* The prompts are answered in turn: a ValueError of strptime ends the call
\* before the category is read, one of float() before the description is.
\* read is the sequence of answers the call consumed.
add_expense(exps, date, category, amount, description) ==
    IF ~DateValid(date)
    THEN [expenses |-> exps, out |-> <<MsgInvalidInput>>, result |-> "invalid",
          read |-> <<date>>]
    ELSE IF ~FloatParses(amount)
    THEN [expenses |-> exps, out |-> <<MsgInvalidInput>>, result |-> "invalid",
          read |-> <<date, category, amount>>]
    ELSE [expenses |->
              Append(exps, Expense(date, category, ParseFloat(amount), description)),
          out |-> <<MsgAdded>>, result |-> "ok",
          read |-> <<date, category, amount, description>>]

(***************************************************************************)
(* ExpenseTracker.view_expenses                                            *)
(***************************************************************************)
MsgNoExpenses == "No expenses to display."

MsgSkip == "Incomplete expense entry found, skipping."

\* str() of a value inside an f-string
Show(v) ==
    CASE v.k = "str" -> v.s
      [] v.k = "num" -> FormatFloat(v.n)
      [] v.k = "none" -> "None"
      [] OTHER -> "[...]"

DetailLine(e) ==
    "Date: " \o Show(e["date"]) \o ", Category: " \o Show(e["category"])
        \o ", Amount: " \o Show(e["amount"])
        \o ", Description: " \o Show(e["description"])

\* all(expense.values())
AllTruthy(e) == \A key \in DOMAIN e : Truthy(e[key])

\* The loop over self.expenses. The f-string subscripts the four keys: on a
\* dict without one of them it raises KeyError, which nothing catches.
RECURSIVE ViewLoop(_, _, _)
ViewLoop(exps, i, lines) ==
    IF i > Len(exps)
    THEN [out |-> Append(lines, ""), result |-> "ok"]
    ELSE IF AllTruthy(exps[i])
    THEN IF FieldSet \subseteq DOMAIN exps[i]
         THEN ViewLoop(exps, i + 1, Append(lines, DetailLine(exps[i])))
         ELSE [out |-> lines, result |-> "KeyError"]
    ELSE ViewLoop(exps, i + 1, Append(lines, MsgSkip))

view_expenses(exps) ==
    IF exps = <<>>
    THEN [out |-> <<MsgNoExpenses>>, result |-> "ok"]
    ELSE ViewLoop(exps, 1, <<"", "List of expenses:">>)

(***************************************************************************)
(* ExpenseTracker.set_budget                                               *)
(***************************************************************************)
MsgInvalidBudget == "Invalid budget input. Please enter a valid number."

\* set_budget adding the value to the budget it finds
set_budget_Accumulate(b, text) ==
    IF FloatParses(text)
    THEN [budget |-> b + ParseFloat(text),
          out |-> <<"Monthly budget set to "
                        \o FormatFloat(b + ParseFloat(text))>>,
          result |-> "ok"]
    ELSE [budget |-> b, out |-> <<MsgInvalidBudget>>, result |-> "invalid"]

set_budget(b, text) ==
    IF FloatParses(text)
    THEN [budget |-> ParseFloat(text),
          out |-> <<"Monthly budget set to " \o FormatFloat(ParseFloat(text))>>,
          result |-> "ok"]
    ELSE [budget |-> b, out |-> <<MsgInvalidBudget>>, result |-> "invalid"]

(***************************************************************************)
(* ExpenseTracker.track_budget                                             *)
(***************************************************************************)
\* sum(expense['amount'] for expense in self.expenses)
RECURSIVE SumAmounts(_)
SumAmounts(exps) ==
    IF exps = <<>> THEN 0
    ELSE exps[1]["amount"].n + SumAmounts(Tail(exps))

\* the generator raises on a dict without a numeric 'amount'
Summable(exps) ==
    \A i \in 1..Len(exps) :
        "amount" \in DOMAIN exps[i] /\ exps[i]["amount"].k = "num"

\* track_budget comparing with >= instead of >
track_budget_Geq(exps, b) ==
    IF ~Summable(exps)
    THEN [out |-> <<>>, result |-> "TypeError"]
    ELSE LET total_expenses == SumAmounts(exps)
         IN  [out |-> <<"", "Total expenses so far: " \o Fmt2(total_expenses),
                        IF total_expenses >= b
                        THEN "You have exceeded your budget by "
                                 \o Fmt2(total_expenses - b) \o "!"
                        ELSE "You have " \o Fmt2(b - total_expenses)
                                 \o " left for the month.",
                        "">>,
              result |-> "ok"]

track_budget(exps, b) ==
    IF ~Summable(exps)
    THEN [out |-> <<>>, result |-> "TypeError"]
    ELSE LET total_expenses == SumAmounts(exps)
         IN  [out |-> <<"", "Total expenses so far: " \o Fmt2(total_expenses),
                        IF total_expenses > b
                        THEN "You have exceeded your budget by "
                                 \o Fmt2(total_expenses - b) \o "!"
                        ELSE "You have " \o Fmt2(b - total_expenses)
                                 \o " left for the month.",
                        "">>,
              result |-> "ok"]

(***************************************************************************)
(* Files                                                                   *)
(***************************************************************************)
NoFile == [exists |-> FALSE, rows |-> <<>>]

FileOf(rows) == [exists |-> TRUE, rows |-> rows]

(***************************************************************************)
(* ExpenseTracker.save_expenses                                            *)
(***************************************************************************)
\* the cell csv.writer writes for a value: None becomes the empty cell
CellText(v) ==
    CASE v.k = "str" -> v.s
      [] v.k = "num" -> FormatFloat(v.n)
      [] OTHER -> ""

\* DictWriter._dict_to_list: a missing key is written as restval ''
DictToList(e) ==
    [i \in 1..Len(FieldNames) |->
        IF FieldNames[i] \in DOMAIN e THEN CellText(e[FieldNames[i]]) ELSE ""]

\* DictWriter raises ValueError on a dict with a key outside fieldnames
WrongFields(e) == DOMAIN e \ FieldSet

\* writer.writerows: the rows are written one after the other, so the rows
\* before a dict that raises are already in the file.
RECURSIVE WriteRows(_, _, _)
WriteRows(exps, i, rows) ==
    IF i > Len(exps)
    THEN [rows |-> rows, failed |-> 0]
    ELSE IF WrongFields(exps[i]) # {}
    THEN [rows |-> rows, failed |-> i]
    ELSE WriteRows(exps, i + 1, Append(rows, DictToList(exps[i])))

MsgSaved(filename) == "Expenses saved to " \o filename \o " successfully!"

\* the text of the cause is abbreviated to the name of the exception
MsgSaveError == "Error saving expenses: "

\* save_expenses without writer.writeheader()
save_expenses_NoHeader(file, exps, filename, io) ==
    IF io = "denied"
    THEN [file |-> file, result |-> "OSError", failed |-> 0,
          out |-> <<MsgSaveError \o "OSError">>]
    ELSE LET w == WriteRows(exps, 1, <<>>)
         IN  IF w.failed = 0
             THEN [file |-> FileOf(w.rows), result |-> "ok", failed |-> 0,
                   out |-> <<MsgSaved(filename)>>]
             ELSE [file |-> FileOf(w.rows), result |-> "ValueError",
                   failed |-> w.failed,
                   out |-> <<MsgSaveError \o "ValueError">>]

\* save_expenses opening the file to append to it
save_expenses_Append(file, exps, filename, io) ==
    IF io = "denied"
    THEN [file |-> file, result |-> "OSError", failed |-> 0,
          out |-> <<MsgSaveError \o "OSError">>]
    ELSE LET w == WriteRows(exps, 1, file.rows \o <<FieldNames>>)
         IN  IF w.failed = 0
             THEN [file |-> FileOf(w.rows), result |-> "ok", failed |-> 0,
                   out |-> <<MsgSaved(filename)>>]
             ELSE [file |-> FileOf(w.rows), result |-> "ValueError",
                   failed |-> w.failed,
                   out |-> <<MsgSaveError \o "ValueError">>]

\* io is what the system does on open(filename, 'w'): it opens and truncates
\* the file ("ok") or refuses ("denied", an OSError).
save_expenses(file, exps, filename, io) ==
    IF io = "denied"
    THEN [file |-> file, result |-> "OSError", failed |-> 0,
          out |-> <<MsgSaveError \o "OSError">>]
    ELSE LET w == WriteRows(exps, 1, <<FieldNames>>)
         IN  IF w.failed = 0
             THEN [file |-> FileOf(w.rows), result |-> "ok", failed |-> 0,
                   out |-> <<MsgSaved(filename)>>]
             ELSE [file |-> FileOf(w.rows), result |-> "ValueError",
                   failed |-> w.failed,
                   out |-> <<MsgSaveError \o "ValueError">>]

(***************************************************************************)
(* ExpenseTracker.load_expenses                                            *)
(***************************************************************************)
\* csv.DictReader.__next__: dict(zip(fieldnames, row)), the surplus cells of
\* a long row under the key None, the missing cells of a short row as None.
RowToDict(header, row) ==
    LET lf == Len(header)
        lr == Len(row)
        Last(key) == CHOOSE i \in 1..lf :
                        /\ header[i] = key
                        /\ \A j \in 1..lf : header[j] = key => j <= i
        d == [key \in {header[i] : i \in 1..lf} |->
                 IF Last(key) <= lr THEN Str(row[Last(key)]) ELSE NoneVal]
    IN  IF lr > lf
        THEN d @@ (NoneKey :> ListVal(SubSeq(row, lf + 1, lr)))
        ELSE d

\* why row['amount'] = float(row['amount']) raises on a row, "" if it does not
AmountError(d) ==
    IF "amount" \notin DOMAIN d THEN "KeyError"
    ELSE IF d["amount"].k # "str" THEN "TypeError"
    ELSE IF ~FloatParses(d["amount"].s) THEN "ValueError"
    ELSE ""

\* the loop appending each row before its amount is converted
RECURSIVE LoadLoop_AppendFirst(_, _, _, _)
LoadLoop_AppendFirst(header, rows, i, exps) ==
    IF i > Len(rows)
    THEN [expenses |-> exps, failed |-> 0, error |-> ""]
    ELSE LET d == RowToDict(header, rows[i])
         IN  IF AmountError(d) # ""
             THEN [expenses |-> Append(exps, d), failed |-> i,
                   error |-> AmountError(d)]
             ELSE LoadLoop_AppendFirst(header, rows, i + 1,
                      Append(exps,
                          [d EXCEPT !["amount"] = Num(ParseFloat(d["amount"].s))]))

\* the loop over the reader: the first row that raises ends it, the rows
\* before it stay appended
RECURSIVE LoadLoop(_, _, _, _)
LoadLoop(header, rows, i, exps) ==
    IF i > Len(rows)
    THEN [expenses |-> exps, failed |-> 0, error |-> ""]
    ELSE LET d == RowToDict(header, rows[i])
         IN  IF AmountError(d) # ""
             THEN [expenses |-> exps, failed |-> i, error |-> AmountError(d)]
             ELSE LoadLoop(header, rows, i + 1,
                      Append(exps,
                          [d EXCEPT !["amount"] = Num(ParseFloat(d["amount"].s))]))

\* the data rows DictReader yields: the rows after the header, blank ones skipped
DataRows(rows) ==
    IF rows = <<>> THEN <<>>
    ELSE SelectSeq(Tail(rows), LAMBDA r : r # <<>>)

MsgLoaded(filename) == "Expenses loaded from " \o filename \o " successfully!"

MsgNotFound(filename) ==
    "No file found: " \o filename \o ". Starting with empty expense list."

MsgLoadError == "Error loading expenses: "

\* what reading the opened file does to the list exps
ReadInto(file, exps) ==
    IF file.rows = <<>>
    THEN [expenses |-> exps, failed |-> 0, error |-> ""]
    ELSE LoadLoop(file.rows[1], DataRows(file.rows), 1, exps)

\* load_expenses emptying the list before it reads the file
load_expenses_Replace(file, exps, filename, io) ==
    IF ~file.exists
    THEN [expenses |-> exps, result |-> "FileNotFoundError", failed |-> 0,
          out |-> <<MsgNotFound(filename)>>]
    ELSE IF io = "denied"
    THEN [expenses |-> exps, result |-> "OSError", failed |-> 0,
          out |-> <<MsgLoadError \o "OSError">>]
    ELSE LET r == ReadInto(file, <<>>)
         IN  IF r.failed = 0
             THEN [expenses |-> r.expenses, result |-> "ok", failed |-> 0,
                   out |-> <<MsgLoaded(filename)>>]
             ELSE [expenses |-> r.expenses, result |-> r.error,
                   failed |-> r.failed, out |-> <<MsgLoadError \o r.error>>]

\* load_expenses appending the rows only when all of them converted
load_expenses_Atomic(file, exps, filename, io) ==
    IF ~file.exists
    THEN [expenses |-> exps, result |-> "FileNotFoundError", failed |-> 0,
          out |-> <<MsgNotFound(filename)>>]
    ELSE IF io = "denied"
    THEN [expenses |-> exps, result |-> "OSError", failed |-> 0,
          out |-> <<MsgLoadError \o "OSError">>]
    ELSE LET r == ReadInto(file, exps)
         IN  IF r.failed = 0
             THEN [expenses |-> r.expenses, result |-> "ok", failed |-> 0,
                   out |-> <<MsgLoaded(filename)>>]
             ELSE [expenses |-> exps, result |-> r.error,
                   failed |-> r.failed, out |-> <<MsgLoadError \o r.error>>]

\* load_expenses taking "starting with empty expense list" at its word
load_expenses_ResetOnMissing(file, exps, filename, io) ==
    IF ~file.exists
    THEN [expenses |-> <<>>, result |-> "FileNotFoundError", failed |-> 0,
          out |-> <<MsgNotFound(filename)>>]
    ELSE IF io = "denied"
    THEN [expenses |-> exps, result |-> "OSError", failed |-> 0,
          out |-> <<MsgLoadError \o "OSError">>]
    ELSE LET r == ReadInto(file, exps)
         IN  IF r.failed = 0
             THEN [expenses |-> r.expenses, result |-> "ok", failed |-> 0,
                   out |-> <<MsgLoaded(filename)>>]
             ELSE [expenses |-> r.expenses, result |-> r.error,
                   failed |-> r.failed, out |-> <<MsgLoadError \o r.error>>]

\* io is what the system does on open(filename, 'r') of an existing file
load_expenses(file, exps, filename, io) ==
    IF ~file.exists
    THEN [expenses |-> exps, result |-> "FileNotFoundError", failed |-> 0,
          out |-> <<MsgNotFound(filename)>>]
    ELSE IF io = "denied"
    THEN [expenses |-> exps, result |-> "OSError", failed |-> 0,
          out |-> <<MsgLoadError \o "OSError">>]
    ELSE LET r == ReadInto(file, exps)
         IN  IF r.failed = 0
             THEN [expenses |-> r.expenses, result |-> "ok", failed |-> 0,
                   out |-> <<MsgLoaded(filename)>>]
             ELSE [expenses |-> r.expenses, result |-> r.error,
                   failed |-> r.failed, out |-> <<MsgLoadError \o r.error>>]

(***************************************************************************)
(* Inputs                                                                  *)
(***************************************************************************)
Answers(date, category, amount, description) ==
    [date |-> date, category |-> category, amount |-> amount,
     description |-> description]

\* what the user answers to the four prompts of add_expense
AddInputs ==
    { Answers("2024-01-15", "Food", "10", "lunch"),
      Answers("2024-02-29", "Travel", "20", ""),
      Answers("2024-01-15", "", "-5", "refund"),
      Answers("2024-01-15", "Food", "0", "free"),
      Answers("2024-02-30", "Food", "10", "lunch"),
      Answers("2023-02-29", "Food", "10", "lunch"),
      Answers("2024-13-01", "Food", "10", "lunch"),
      Answers("15/01/2024", "Food", "10", "lunch"),
      Answers("2024-01-15", "Food", "abc", "lunch"),
      Answers("2024-01-15", "Food", "", "lunch") }

\* what the user answers to the prompt of set_budget
BudgetInputs == {"25", "10.0", "abc", ""}

\* selections the menu does not know
OtherChoices == {"0", "8", "", "add"}

\* what the system does when the program opens the file
IOOutcomes == {"ok", "denied"}

\* The file the program finds at the default path when it starts.
GoodFile ==
    FileOf(<<FieldNames,
             <<"2024-01-15", "Food", "20", "lunch">>,
             <<"2024-01-16", "Travel", "5", "bus">>>>)

BadAmountFile ==
    FileOf(<<FieldNames,
             <<"2024-01-15", "Food", "5", "lunch">>,
             <<"2024-01-16", "Travel", "abc", "bus">>,
             <<"2024-01-17", "Food", "20", "dinner">>>>)

ShortRowFile ==
    FileOf(<<FieldNames, <<"2024-01-15", "Food", "20">>>>)

LongRowFile ==
    FileOf(<<FieldNames, <<"2024-01-15", "Food", "20", "lunch", "extra">>>>)

NoDescriptionFile ==
    FileOf(<<<<"date", "category", "amount">>, <<"2024-01-15", "Food", "20">>>>)

NoAmountFile ==
    FileOf(<<<<"date", "category", "description">>,
             <<"2024-01-15", "Food", "lunch">>>>)

EmptyFile == FileOf(<<>>)

InitialFiles ==
    {NoFile, GoodFile, BadAmountFile, ShortRowFile, LongRowFile,
     NoDescriptionFile, NoAmountFile, EmptyFile}

(***************************************************************************)
(* ExpenseTracker.__init__ and the start of menu                           *)
(***************************************************************************)
\* op describes the last menu iteration: the selection, the answers the
\* operation read, how it ended, the record or row it failed on (0 if none)
\* and the number of rows the default file held when the iteration began.
Op(choice, read, result, failed) ==
    [choice |-> choice, read |-> read, result |-> result, failed |-> failed,
     before |-> Len(fs[DefaultPath].rows)]

Init ==
    /\ expenses = <<>>
    /\ budget = 0
    /\ fs \in {f \in [Paths -> InitialFiles] : f[OtherPath] = NoFile}
    /\ pc = "MENU"
    /\ out = <<>>
    /\ op = [choice |-> "", read |-> <<>>, result |-> "start", failed |-> 0,
             before |-> 0]

(***************************************************************************)
(* ExpenseTracker.menu: one action per branch of the loop body             *)
(***************************************************************************)
MenuAdd ==
    /\ pc = "MENU"
    /\ Len(expenses) < MaxExpenses
    /\ \E a \in AddInputs :
          LET r == add_expense(expenses, a.date, a.category, a.amount,
                               a.description)
          IN  /\ expenses' = r.expenses
              /\ out' = r.out
              /\ op' = Op("1", r.read, r.result, 0)
    /\ UNCHANGED <<budget, fs, pc>>

MenuView ==
    /\ pc = "MENU"
    /\ LET r == view_expenses(expenses)
       IN  /\ out' = r.out
           /\ op' = Op("2", <<>>, r.result, 0)
           /\ pc' = IF r.result = "ok" THEN "MENU" ELSE "CRASHED"
    /\ UNCHANGED <<expenses, budget, fs>>

MenuSetBudget ==
    /\ pc = "MENU"
    /\ \E text \in BudgetInputs :
          LET r == set_budget(budget, text)
          IN  /\ budget' = r.budget
              /\ out' = r.out
              /\ op' = Op("3", <<text>>, r.result, 0)
    /\ UNCHANGED <<expenses, fs, pc>>

\* the track branch taking the total off the budget
MenuTrack_Deducts ==
    /\ pc = "MENU"
    /\ LET r == track_budget(expenses, budget)
       IN  /\ out' = r.out
           /\ op' = Op("4", <<>>, r.result, 0)
           /\ pc' = IF r.result = "ok" THEN "MENU" ELSE "CRASHED"
    /\ budget' = IF Summable(expenses) THEN budget - SumAmounts(expenses)
                  ELSE budget
    /\ UNCHANGED <<expenses, fs>>

MenuTrack ==
    /\ pc = "MENU"
    /\ LET r == track_budget(expenses, budget)
       IN  /\ out' = r.out
           /\ op' = Op("4", <<>>, r.result, 0)
           /\ pc' = IF r.result = "ok" THEN "MENU" ELSE "CRASHED"
    /\ UNCHANGED <<expenses, budget, fs>>

\* the save branch passing another filename than the default
MenuSave_OtherPath ==
    /\ pc = "MENU"
    /\ \E io \in IOOutcomes :
          LET r == save_expenses(fs[OtherPath], expenses, OtherPath, io)
          IN  /\ fs' = [fs EXCEPT ![OtherPath] = r.file]
              /\ out' = r.out
              /\ op' = Op("5", <<>>, r.result, r.failed)
    /\ UNCHANGED <<expenses, budget, pc>>

MenuSave ==
    /\ pc = "MENU"
    /\ \E io \in IOOutcomes :
          LET r == save_expenses(fs[DefaultPath], expenses, DefaultPath, io)
          IN  /\ fs' = [fs EXCEPT ![DefaultPath] = r.file]
              /\ out' = r.out
              /\ op' = Op("5", <<>>, r.result, r.failed)
    /\ UNCHANGED <<expenses, budget, pc>>

\* the load branch resetting the budget, as if the file carried one
MenuLoad_ResetsBudget ==
    /\ pc = "MENU"
    /\ Len(expenses) <= MaxExpenses
    /\ \E io \in IOOutcomes :
          LET r == load_expenses(fs[DefaultPath], expenses, DefaultPath, io)
          IN  /\ expenses' = r.expenses
              /\ out' = r.out
              /\ op' = Op("6", <<>>, r.result, r.failed)
    /\ budget' = 0
    /\ UNCHANGED <<fs, pc>>

MenuLoad ==
    /\ pc = "MENU"
    /\ Len(expenses) <= MaxExpenses
    /\ \E io \in IOOutcomes :
          LET r == load_expenses(fs[DefaultPath], expenses, DefaultPath, io)
          IN  /\ expenses' = r.expenses
              /\ out' = r.out
              /\ op' = Op("6", <<>>, r.result, r.failed)
    /\ UNCHANGED <<budget, fs, pc>>

MsgExit == "Saving expenses and exiting program."

\* the exit branch leaving the loop without the call of save_expenses
MenuExit_NoSave ==
    /\ pc = "MENU"
    /\ out' = <<MsgExit>>
    /\ op' = Op("7", <<>>, "ok", 0)
    /\ pc' = "EXIT"
    /\ UNCHANGED <<expenses, budget, fs>>

MenuExit ==
    /\ pc = "MENU"
    /\ \E io \in IOOutcomes :
          LET r == save_expenses(fs[DefaultPath], expenses, DefaultPath, io)
          IN  /\ fs' = [fs EXCEPT ![DefaultPath] = r.file]
              /\ out' = <<MsgExit>> \o r.out
              /\ op' = Op("7", <<>>, r.result, r.failed)
    /\ pc' = "EXIT"
    /\ UNCHANGED <<expenses, budget>>

MsgInvalidOption == "Invalid option. Please try again."

\* the else branch leaving the loop as the exit branch does
MenuInvalid_Breaks ==
    /\ pc = "MENU"
    /\ \E choice \in OtherChoices :
          /\ out' = <<MsgInvalidOption>>
          /\ op' = Op(choice, <<>>, "invalid", 0)
    /\ pc' = "EXIT"
    /\ UNCHANGED <<expenses, budget, fs>>

MenuInvalid ==
    /\ pc = "MENU"
    /\ \E choice \in OtherChoices :
          /\ out' = <<MsgInvalidOption>>
          /\ op' = Op(choice, <<>>, "invalid", 0)
    /\ UNCHANGED <<expenses, budget, fs, pc>>

Next ==
    \/ MenuAdd
    \/ MenuView
    \/ MenuSetBudget
    \/ MenuTrack
    \/ MenuSave
    \/ MenuLoad
    \/ MenuExit
    \/ MenuInvalid

Spec == Init /\ [][Next]_vars

(***************************************************************************)
(* Properties                                                              *)
(***************************************************************************)
Saved == op.choice \in {"5", "7"} /\ op.result = "ok"

\* the line view prints for a record, written from the answers given to add
LineOfAnswers(read) ==
    "Date: " \o read[1] \o ", Category: " \o read[2] \o ", Amount: "
        \o FormatFloat(ParseFloat(read[3])) \o ", Description: " \o read[4]

\* C1: a successful add grows the store by exactly one record, and a view
\* that follows it prints, at the place of the new record, the detail line
\* showing the four values that were entered.
C1_AddThenViewShowsRecord ==
    [][ /\ (op'.choice = "1" /\ op'.result = "ok")
            => Len(expenses') = Len(expenses) + 1
        /\ (op.choice = "1" /\ op.result = "ok" /\ op'.choice = "2")
            => /\ Len(out') = Len(expenses) + 3
               /\ out'[Len(expenses) + 2] = LineOfAnswers(op.read)
      ]_vars

BadDates == {"2024-02-30", "2023-02-29", "2024-13-01", "15/01/2024"}

BadAmounts == {"abc", ""}

\* C2: an add whose date is no valid YYYY-MM-DD calendar date, or whose
\* amount is no number, prints the validation error once, changes neither
\* expenses nor budget nor the file, and leaves the shell at the menu.
C2_InvalidAddNoMutation ==
    [][ (/\ op'.choice = "1"
         /\ \/ op'.read[1] \in BadDates
            \/ (Len(op'.read) >= 3 /\ op'.read[3] \in BadAmounts))
        => /\ expenses' = expenses
           /\ budget' = budget
           /\ fs' = fs
           /\ pc' = "MENU"
           /\ op'.result = "invalid"
           /\ out' = <<"Invalid input! Please try again.">>
      ]_vars

\* C2 witness: a rejected add on a store that holds a record and a budget
C2_Witness ==
    /\ op.choice = "1"
    /\ op.result = "invalid"
    /\ op.read = <<"2024-02-30">>
    /\ Len(expenses) = 1
    /\ budget = 25

\* what load makes of the default file in a store that was just constructed
FreshLoad == load_expenses(fs[DefaultPath], <<>>, DefaultPath, "ok")

\* a record as add builds it: exactly the four fields, three texts, a number
WellFormed(e) ==
    /\ DOMAIN e = FieldSet
    /\ e["date"].k = "str"
    /\ e["category"].k = "str"
    /\ e["amount"].k = "num"
    /\ e["description"].k = "str"

\* C3 as stated: after a successful save of any reachable store, a load of
\* the file into a fresh store yields the sequence that was saved.
C3_RoundTripAnyStore ==
    Saved => FreshLoad.result = "ok" /\ FreshLoad.expenses = expenses

\* C3 amended: after a successful save of a store whose records all have
\* exactly the four fields (date, category and description texts, amount a
\* number), a load of the file into a fresh store yields the same sequence.
C3_RoundTripWellFormed ==
    (Saved /\ \A i \in 1..Len(expenses) : WellFormed(expenses[i]))
        => FreshLoad.result = "ok" /\ FreshLoad.expenses = expenses

\* C3 witness: a saved store of well-formed records, one added with an empty
\* description and one loaded from the amount text "20"
C3_Witness ==
    /\ Saved
    /\ Len(expenses) >= 2
    /\ \A i \in 1..Len(expenses) : WellFormed(expenses[i])
    /\ \E i \in 1..Len(expenses) : expenses[i]["description"].s = ""
    /\ \E i \in 1..Len(expenses) : expenses[i]["description"].s = "lunch"
                                    /\ expenses[i]["amount"].n = 20

\* the dict a data row stands for under a header of distinct names
RowMatches(e, header, row) ==
    /\ \A c \in 1..Len(header) :
          /\ header[c] \in DOMAIN e
          /\ IF c > Len(row) THEN e[header[c]].k = "none"
             ELSE IF header[c] = "amount"
             THEN /\ e[header[c]].k = "num"
                  /\ row[c] \in {ToString(e[header[c]].n),
                                 ToString(e[header[c]].n) \o ".0"}
             ELSE e[header[c]].k = "str" /\ e[header[c]].s = row[c]
    /\ \A key \in DOMAIN e :
          \/ \E c \in 1..Len(header) : header[c] = key
          \/ key = NoneKey /\ Len(row) > Len(header)

\* C4: a successful load leaves the records in memory where they are and
\* appends one record per data row of the file, in file order; the file is
\* not changed, so a second load of it appends the same records again.
C4_LoadAppends ==
    [][ (op'.choice = "6" /\ op'.result = "ok")
        => LET rows == fs[DefaultPath].rows
               n == IF rows = <<>> THEN 0 ELSE Len(rows) - 1
           IN  /\ fs' = fs
               /\ Len(expenses') = Len(expenses) + n
               /\ SubSeq(expenses', 1, Len(expenses)) = expenses
               /\ \A j \in 1..n :
                     RowMatches(expenses'[Len(expenses) + j], rows[1],
                                rows[j + 1])
      ]_vars

\* C4 witness: the two-row file loaded twice into an empty store
C4_Witness ==
    /\ op.choice = "6"
    /\ op.result = "ok"
    /\ fs[DefaultPath] = GoodFile
    /\ Len(expenses) = 4
    /\ SubSeq(expenses, 1, 2) = SubSeq(expenses, 3, 4)
    /\ expenses[1] # expenses[2]

\* the amount of a data row does not convert: no amount column, no cell in
\* it, or a cell that is no number
BadRow(header, row) ==
    \A c \in 1..Len(header) :
        header[c] = "amount"
            => \/ c > Len(row)
               \/ row[c] \notin {p[1] : p \in FloatLiterals}

\* C5: when the first row of the file whose amount does not convert is data
\* row k, load reports an error, has appended exactly the k-1 rows before it,
\* in order, after the records that were in memory, and appends no later row.
C5_LoadStopsAtBadRow ==
    [][ (/\ op'.choice = "6"
         /\ op'.result \notin {"FileNotFoundError", "OSError"}
         /\ \E j \in 2..Len(fs[DefaultPath].rows) :
               BadRow(fs[DefaultPath].rows[1], fs[DefaultPath].rows[j]))
        => LET rows == fs[DefaultPath].rows
               k == (CHOOSE j \in 2..Len(rows) :
                        /\ BadRow(rows[1], rows[j])
                        /\ \A i \in 2..(j - 1) : ~BadRow(rows[1], rows[i])) - 1
           IN  /\ op'.result \in {"ValueError", "TypeError", "KeyError"}
               /\ op'.failed = k
               /\ Len(out') = 1
               /\ out'[1] = "Error loading expenses: " \o op'.result
               /\ Len(expenses') = Len(expenses) + k - 1
               /\ SubSeq(expenses', 1, Len(expenses)) = expenses
               /\ \A j \in 1..(k - 1) :
                     RowMatches(expenses'[Len(expenses) + j], rows[1],
                                rows[j + 1])
               /\ fs' = fs
               /\ budget' = budget
      ]_vars

\* C5 witness: the load failed on the second data row of the file, after a
\* record that was added and the first data row
C5_Witness ==
    /\ op.choice = "6"
    /\ op.result = "ValueError"
    /\ op.failed = 2
    /\ fs[DefaultPath] = BadAmountFile
    /\ Len(expenses) = 2
    /\ expenses[1]["description"].s = "refund"
    /\ expenses[2]["amount"].n = 5

\* C6: a load when no file exists at the path leaves expenses, budget and
\* the file system as they were and prints the "starting with empty expense
\* list" notice, not an error line.
C6_LoadMissingFile ==
    [][ (op'.choice = "6" /\ ~fs[DefaultPath].exists)
        => /\ expenses' = expenses
           /\ budget' = budget
           /\ fs' = fs
           /\ pc' = "MENU"
           /\ op'.result = "FileNotFoundError"
           /\ out' = <<"No file found: expenses.csv. "
                          \o "Starting with empty expense list.">>
      ]_vars

\* C6 witness: the load found no file, in a store with a record and a budget
C6_Witness ==
    /\ op.choice = "6"
    /\ op.result = "FileNotFoundError"
    /\ Len(expenses) = 1
    /\ budget = 10

\* the amounts of the records, in order
Amounts(exps) == [i \in 1..Len(exps) |-> exps[i]["amount"].n]

\* the sum of the first n amounts
RECURSIVE SumFirst(_, _)
SumFirst(exps, n) ==
    IF n = 0 THEN 0 ELSE SumFirst(exps, n - 1) + exps[n]["amount"].n

\* C7: track-budget prints the total of the amounts of all records, then the
\* overage total - budget when total > budget and otherwise (also when they
\* are equal) the remainder budget - total; amounts 10, 20 under budget 25
\* give 30.00 and over by 5.00, amounts 10, 5 give 15.00 and 10.00 left.
C7_TrackBudget ==
    op.choice = "4"
        => LET total == SumFirst(expenses, Len(expenses))
           IN  /\ op.result = "ok"
               /\ Len(out) = 4
               /\ out[2] = "Total expenses so far: " \o ToString(total) \o ".00"
               /\ total > budget
                    => out[3] = "You have exceeded your budget by "
                                    \o ToString(total - budget) \o ".00!"
               /\ total <= budget
                    => out[3] = "You have " \o ToString(budget - total)
                                    \o ".00 left for the month."
               /\ (Amounts(expenses) = <<10, 20>> /\ budget = 25)
                    => /\ out[2] = "Total expenses so far: 30.00"
                       /\ out[3] = "You have exceeded your budget by 5.00!"
               /\ (Amounts(expenses) = <<10, 5>> /\ budget = 25)
                    => /\ out[2] = "Total expenses so far: 15.00"
                       /\ out[3] = "You have 10.00 left for the month."

\* C7 witness: track-budget ran on amounts 10, 20 under budget 25
C7_Witness ==
    /\ op.choice = "4"
    /\ Amounts(expenses) = <<10, 20>>
    /\ budget = 25

\* C8: the budget starts at zero; a set-budget whose input is a number makes
\* the budget that number whatever it was before, one whose input is no
\* number prints the validation error and leaves it, and no other operation
\* changes it.
C8_BudgetIsLastSet ==
    /\ budget = 0
    /\ [][ IF op'.choice = "3" /\ op'.read = <<"25">> THEN budget' = 25
           ELSE IF op'.choice = "3" /\ op'.read = <<"10.0">> THEN budget' = 10
           ELSE /\ budget' = budget
                /\ op'.choice = "3"
                     => /\ op'.result = "invalid"
                        /\ out' = <<"Invalid budget input. "
                                       \o "Please enter a valid number.">>
         ]_vars

\* C8 witness: a budget was set to 10 by the input "10.0"
C8_Witness ==
    /\ op.choice = "3"
    /\ op.result = "ok"
    /\ op.read = <<"10.0">>
    /\ budget = 10
    /\ expenses # <<>>

\* the cell save writes for a field of a record
CellMatches(e, key, cell) ==
    IF key \notin DOMAIN e THEN cell = ""
    ELSE CASE e[key].k = "str" -> cell = e[key].s
           [] e[key].k = "num" -> cell = ToString(e[key].n) \o ".0"
           [] OTHER -> cell = ""

\* C9: after a successful save the file exists and holds the header row
\* followed by exactly one row per record of expenses, in order, whatever it
\* held before.
C9_SaveOverwrites ==
    Saved
        => LET rows == fs[DefaultPath].rows
           IN  /\ fs[DefaultPath].exists
               /\ Len(rows) = Len(expenses) + 1
               /\ rows[1] = <<"date", "category", "amount", "description">>
               /\ \A i \in 1..Len(expenses) :
                     /\ Len(rows[i + 1]) = 4
                     /\ \A c \in 1..4 :
                           CellMatches(expenses[i], rows[1][c], rows[i + 1][c])

\* C9 witness: a save of one record over a file that held four rows
C9_Witness ==
    /\ op.choice = "5"
    /\ op.result = "ok"
    /\ op.before = 4
    /\ Len(expenses) = 1

\* C10: the shell is out of the menu loop only after the selection "7", whose
\* iteration printed the exit notice and saved to the default path.
C10_TerminatesOnlyByExit ==
    pc # "MENU"
        => /\ op.choice = "7"
           /\ Len(out) = 2
           /\ out[1] = "Saving expenses and exiting program."
           /\ out[2] \in {"Expenses saved to expenses.csv successfully!",
                          "Error saving expenses: OSError",
                          "Error saving expenses: ValueError"}

MenuChoices == {"1", "2", "3", "4", "5", "6", "7"}

\* C11: a selection other than "1".."7" prints the error line and changes
\* neither expenses nor budget nor any file; the shell stays at the menu.
C11_InvalidSelectionNoEffect ==
    [][ op'.choice \notin MenuChoices
        => /\ expenses' = expenses
           /\ budget' = budget
           /\ fs' = fs
           /\ pc' = "MENU"
           /\ out' = <<"Invalid option. Please try again.">>
      ]_vars

\* C11 witness: an unknown selection was made in a store with a record, a
\* budget and a file
C11_Witness ==
    /\ op.choice = "8"
    /\ Len(expenses) = 1
    /\ budget = 25
    /\ fs[DefaultPath].exists
    /\ pc = "MENU"

\* C12: every selection other than the exit selection completes with the
\* shell back at the menu, whatever the store and the files hold.
C12_NoErrorIsFatal ==
    [][ op'.choice # "7" => pc' = "MENU" ]_vars

\* the record has each of the four fields, none of them missing from its row
HasFourFields(e) ==
    \A key \in FieldSet : key \in DOMAIN e /\ e[key].k # "none"

\* C13: a view of a non-empty store of n records completes and prints, between
\* the heading and the closing blank line, exactly n lines in store order:
\* the detail line of each record that has all four fields, the skip notice
\* for each record that misses one.
C13_ViewListsEveryRecord ==
    (op.choice = "2" /\ expenses # <<>>)
        => /\ op.result = "ok"
           /\ Len(out) = Len(expenses) + 3
           /\ \A i \in 1..Len(expenses) :
                 out[i + 2] = IF HasFourFields(expenses[i])
                              THEN DetailLine(expenses[i])
                              ELSE "Incomplete expense entry found, skipping."

\* C14: every step leaves the expenses sequence it finds as a prefix of the
\* sequence it produces: no record is removed, moved or changed.
C14_AppendOnly ==
    [][ /\ Len(expenses') >= Len(expenses)
        /\ SubSeq(expenses', 1, Len(expenses)) = expenses
      ]_vars

\* C14 witness: two different records were added and the two-row file was
\* loaded after them
C14_Witness ==
    /\ op.choice = "6"
    /\ Len(expenses) = 4
    /\ expenses[1]["amount"].n = 10
    /\ expenses[2]["amount"].n = -5
    /\ expenses[3]["amount"].n = 20
    /\ expenses[4]["amount"].n = 5

\* the lines one call of save_expenses or load_expenses on the default path
\* can print
SaveLines ==
    {"Expenses saved to expenses.csv successfully!",
     "Error saving expenses: OSError", "Error saving expenses: ValueError"}

LoadLines ==
    {"Expenses loaded from expenses.csv successfully!",
     "No file found: expenses.csv. Starting with empty expense list.",
     "Error loading expenses: OSError", "Error loading expenses: ValueError",
     "Error loading expenses: TypeError", "Error loading expenses: KeyError"}

\* what every iteration with a selection "1".."6" does, apart from the input
\* of save and load: the one operation of the selection runs once, after
\* add and set-budget have read their answers
OneOperation ==
    /\ op'.choice = "1"
         => /\ Len(op'.read) \in {1, 3, 4}
            /\ out' \in {<<"Expense added successfully!">>,
                         <<"Invalid input! Please try again.">>}
            /\ Len(expenses') \in {Len(expenses), Len(expenses) + 1}
    /\ op'.choice = "2"
         => /\ op'.read = <<>>
            /\ out'[1] \in {"No expenses to display.", ""}
    /\ op'.choice = "3" => Len(op'.read) = 1 /\ Len(out') = 1
    /\ op'.choice = "4" => op'.read = <<>> /\ Len(out') = 4
    /\ op'.choice = "5" => Len(out') = 1 /\ out'[1] \in SaveLines
    /\ op'.choice = "6" => Len(out') = 1 /\ out'[1] \in LoadLines

\* C15 as stated: every non-exit selection runs its one operation once, and
\* the save and load selections first read one answer, the optional path.
C15_SaveLoadReadPath ==
    [][ /\ OneOperation
        /\ op'.choice \in {"5", "6"} => Len(op'.read) = 1
      ]_vars

\* C15 amended: every non-exit selection runs its one operation once; the
\* save and load selections read no answer and work on expenses.csv only:
\* no other file is written, and load leaves every file as it is.
C15_OneOperationDefaultPath ==
    [][ /\ OneOperation
        /\ op'.choice \in {"5", "6"}
             => /\ op'.read = <<>>
                /\ fs'[OtherPath] = fs[OtherPath]
        /\ op'.choice = "6" => fs' = fs
      ]_vars

\* C15 witness: a save wrote the two records of the store to expenses.csv
\* and no other file exists
C15_Witness ==
    /\ op.choice = "5"
    /\ op.result = "ok"
    /\ op.read = <<>>
    /\ Len(expenses) = 2
    /\ Len(fs[DefaultPath].rows) = 3
    /\ ~fs[OtherPath].exists

\* the file holds the header and the row of each record of exps, in order
Serializes(file, exps) ==
    /\ file.exists
    /\ Len(file.rows) = Len(exps) + 1
    /\ file.rows[1] = <<"date", "category", "amount", "description">>
    /\ \A i \in 1..Len(exps) :
          /\ Len(file.rows[i + 1]) = 4
          /\ \A c \in 1..4 :
                CellMatches(exps[i], file.rows[1][c], file.rows[i + 1][c])

\* C16: whenever a save returns, with success or with an error, the file
\* holds either what it held before or the full serialization of expenses.
C16_SaveAllOrNothing ==
    [][ op'.choice \in {"5", "7"}
        => \/ fs'[DefaultPath] = fs[DefaultPath]
           \/ Serializes(fs'[DefaultPath], expenses)
      ]_vars

\* C17: the store starts empty and only the add and load selections put
\* records into it; when the save of the exit selection succeeds, the default
\* file holds exactly the records in memory at exit, so rows it held before
\* the run that were not loaded are gone, and an empty store leaves the
\* header alone.
C17_ExitFileIsMemory ==
    /\ expenses = <<>>
    /\ [][ /\ expenses' # expenses => op'.choice \in {"1", "6"}
           /\ (pc' = "EXIT" /\ op'.result = "ok")
                => /\ Serializes(fs'[DefaultPath], expenses')
                   /\ expenses' = <<>>
                        => fs'[DefaultPath].rows
                              = <<<<"date", "category", "amount",
                                    "description">>>>
         ]_vars

\* C17 witness: the program exited with an empty store over a file that held
\* four rows, which now holds the header only
C17_Witness ==
    /\ pc = "EXIT"
    /\ op.result = "ok"
    /\ op.before = 4
    /\ expenses = <<>>
    /\ Len(fs[DefaultPath].rows) = 1

\* C18: the budget is neither written nor read back: a store starts with
\* budget 0, no load step and no save step changes the budget (so a fresh
\* store that loads a saved file still has budget 0 and an existing store
\* keeps its own), and the file a successful save writes holds the header and
\* the rows of the records, nothing else.
C18_BudgetNotPersisted ==
    /\ budget = 0
    /\ [][ /\ op'.choice \in {"5", "6", "7"} => budget' = budget
           /\ (op'.choice \in {"5", "7"} /\ op'.result = "ok")
                => Serializes(fs'[DefaultPath], expenses)
         ]_vars

\* C18 witness: a store with budget 25 loaded the file it had saved itself
C18_Witness ==
    /\ op.choice = "6"
    /\ op.result = "ok"
    /\ budget = 25
    /\ Len(expenses) = 2
    /\ Serializes(fs[DefaultPath], SubSeq(expenses, 1, 1))
    /\ expenses[2] = expenses[1]

\* C19: in every reachable state each record of expenses has a numeric
\* amount, so the sum of track-budget is defined: track-budget never fails,
\* also after a load that stopped part-way.
C19_AmountsNumeric ==
    /\ \A i \in 1..Len(expenses) :
          /\ "amount" \in DOMAIN expenses[i]
          /\ expenses[i]["amount"].k = "num"
    /\ op.choice = "4" => op.result = "ok" /\ pc = "MENU"

\* C19 witness: track-budget ran on the one record a load that failed on its
\* second row had appended
C19_Witness ==
    /\ op.choice = "4"
    /\ op.result = "ok"
    /\ fs[DefaultPath] = BadAmountFile
    /\ Amounts(expenses) = <<5>>
    /\ out[2] = "Total expenses so far: 5.00"

\* C20: view, track-budget and save (also the save of exit) change neither
\* expenses nor budget, however they end; add and load do not change the
\* budget; set-budget does not change expenses.
C20_Frames ==
    [][ /\ op'.choice \in {"2", "4", "5", "7"}
             => expenses' = expenses /\ budget' = budget
        /\ op'.choice \in {"1", "6"} => budget' = budget
        /\ op'.choice = "3" => expenses' = expenses
      ]_vars

\* C20 witness: a save that reported an error, in a store with records and a
\* budget
C20_Witness ==
    /\ op.choice = "5"
    /\ op.result = "ValueError"
    /\ Len(expenses) = 2
    /\ budget = 25

====
